---- MODULE Spec2Model ----
(***************************************************************************)
(* A model of quaddiff/core/trajectory.py: the ray integrator              *)
(* (calculate_ray_3), TrajectorySolver.calculate / parallel_calculate, the *)
(* monodromy update inside vector_field, and Trajectory.refine /           *)
(* Trajectory.intersects.                                                  *)
(*                                                                         *)
(* Complex numbers are pairs <<re, im>> of integers (Gaussian integers).   *)
(* Distances are compared through their squares, which is exact for the    *)
(* non-negative quantities the code compares.                              *)
(***************************************************************************)
EXTENDS Integers, Sequences, FiniteSets, TLC

VARIABLES
    \* ---- TrajectorySolver.calculate and calculate_ray_3 ----
    quad,                 \* the field: [zeros, smplpoles, dblpoles]
    parameters,           \* get_parameters()
    point,                \* calculate's start point
    cpc,                  \* where calculate is: positive | negative | returned | raised
    sign,                 \* calculate_ray_3's sign
    status,               \* solve_ivp's status: idle | running | finished | event
    t, y,                 \* solver.t, solver.y
    ts, ys,               \* the points solve_ivp has recorded (solution t, y)
    g,                    \* the event values at the previous step
    active,               \* find_active_events at the last step
    positive_trajectory,
    negative_trajectory,
    trajectory,           \* calculate's result
    \* ---- TrajectorySolver.parallel_calculate ----
    args,                 \* the jobs: a list of <<point, phase>>
    ppc,                  \* where parallel_calculate is: start | join | collect | returned | raised
    taskq,                \* index of the next job the pool hands to a worker
    job,                  \* the job each worker is computing (0: none)
    items,                \* the imap iterator's results ready in order (_items)
    unsorted,             \* results that arrived ahead of their turn (_unsorted)
    index,                \* the imap iterator's next expected index (_index)
    zipped,               \* how many pairs the zip loop has consumed
    result,               \* the dict being built
    completion_order,     \* the job indices in the order the workers finished them
    \* ---- Trajectory.refine ----
    self_trajectory,      \* the Trajectory refine is called on
    max_distance,
    pair,                 \* how many (point, next_point) pairs the loop has done
    refined_trajectory,
    rfpc,                 \* where refine is: loop | returned | raised
    \* ---- Trajectory.intersects ----
    traj_a, traj_b,       \* two trajectories
    a_intersects_b,       \* what a.intersects(b) returned ("none" before the call)
    b_intersects_a,       \* what b.intersects(a) returned
    \* ---- the monodromy of calculate_ray_3 ----
    m_point,              \* m_point[0]: the argument of the last field value
    m_phase,              \* m_phase[0]: the accumulated phase
    velocity,             \* <<the argument of the last velocity vector_field returned>>
    last_velocity         \* <<the argument of the one before it>>

calcVars == <<quad, parameters, point, cpc, sign, status, t, y, ts, ys, g,
              active, positive_trajectory, negative_trajectory, trajectory>>

poolVars == <<args, ppc, taskq, job, items, unsorted, index, zipped, result,
              completion_order>>

refineVars == <<self_trajectory, max_distance, pair, refined_trajectory, rfpc>>

intersectsVars == <<traj_a, traj_b, a_intersects_b, b_intersects_a>>

monodromyVars == <<m_point, m_phase, velocity, last_velocity>>

vars == <<calcVars, poolVars, refineVars, intersectsVars, monodromyVars>>

\* What calculate leaves alone.
notCalcVars == <<poolVars, refineVars, intersectsVars, monodromyVars>>
\* What parallel_calculate leaves alone (the workers' own integrations are
\* folded into _calculate).
notPoolVars == <<calcVars, refineVars, intersectsVars, monodromyVars>>
notRefineVars == <<calcVars, poolVars, intersectsVars, monodromyVars>>
notIntersectsVars == <<calcVars, poolVars, refineVars, monodromyVars>>
notMonodromyVars == <<calcVars, poolVars, refineVars, intersectsVars>>

----------------------------------------------------------------------------
(* Bounds of the model *)

\* Points of the plane the model visits: re, im in -GridMax..GridMax.
GridMax == 2
\* solver.step() advances t by h with max_step - StepSlack <= h <= max_step.
StepSlack == 1

\* parallel_calculate is given at most MaxJobs jobs, and the pool has
\* NWorkers worker processes.
MaxJobs == 3
NWorkers == 2

\* refine's inputs: points with re in 0..RefineMax and im in 0..1, at most
\* MaxLen of them, and max_distance in 1..MaxDistance.
RefineMax == 4
MaxLen == 3
MaxDistance == 2

\* intersects' inputs: points with re in 0..CrossMax and im in 0..1.
CrossMax == 2

\* Arguments of field values are multiples of pi / HalfTurn, and the
\* accumulated phase is followed up to MaxPhase of them either way.
HalfTurn == 4
MaxPhase == 16

\* close_2start's warm-up (trajectory.py:433).
WarmUp == 100

----------------------------------------------------------------------------
(* Complex arithmetic on Gaussian integers *)

Add(a, b) == <<a[1] + b[1], a[2] + b[2]>>
Sub(a, b) == <<a[1] - b[1], a[2] - b[2]>>
Scale(k, a) == <<k * a[1], k * a[2]>>
\* abs(w) ** 2
AbsSq(w) == w[1] * w[1] + w[2] * w[2]

SetMin(S) == CHOOSE m \in S : \A x \in S : m <= x
Reverse(s) == [i \in 1..Len(s) |-> s[Len(s) + 1 - i]]
\* Python's int(bool)
B2I(b) == IF b THEN 1 ELSE 0

Grid == {<<re, im>> : re \in -GridMax..GridMax, im \in -GridMax..GridMax}

\* The field of the runs: one zero, one simple pole, one double pole.
Fields == {[zeros |-> {<<1, 1>>}, smplpoles |-> {<<-1, -1>>}, dblpoles |-> {<<2, 2>>}]}

\* get_parameters(): the thresholds and the time budget of the runs.
DefaultParameters ==
    [max_time |-> 120, max_step |-> 50, lim |-> 2, close_2pole |-> 1,
     close_2start |-> 2, close_2zero |-> 1, center |-> <<0, 0>>]

Parameters == {DefaultParameters, [DefaultParameters EXCEPT !.max_time = 99]}

----------------------------------------------------------------------------
(* calculate_ray_3 *)

Singularities == quad.zeros \cup quad.smplpoles \cup quad.dblpoles

\* A vector_field whose division by zero yields NaN instead of raising.
vector_field_silent(comp) == FALSE

\* vector_field divides by abs(comp - z) for every zero and pole z: with
\* comp on one of them Python raises ZeroDivisionError.
vector_field_raises(comp) == \E z \in Singularities : AbsSq(Sub(comp, z)) = 0

\* The events read the enclosing variable `close` when solve_ivp calls
\* them, after its last assignment: parameters.get('close_2zero', ...).
close == parameters.close_2zero

far_away(tt, yy) ==
    B2I(AbsSq(Sub(yy, parameters.center)) < parameters.lim * parameters.lim)

close_2pole(tt, yy) ==
    LET distance == SetMin({parameters.lim * parameters.lim} \cup
                           {AbsSq(Sub(yy, pole)) : pole \in quad.smplpoles \cup quad.dblpoles})
    IN  B2I(distance > close * close)

close_2start(tt, yy) ==
    B2I(tt < WarmUp) + B2I(AbsSq(Sub(yy, point)) > close * close)

close_2zero(tt, yy) ==
    LET distance == SetMin({parameters.lim * parameters.lim} \cup
                           {AbsSq(Sub(zero, yy)) : zero \in quad.zeros})
    IN  B2I(distance > close * close)

EventNames == {"far_away", "close_2pole", "close_2start", "close_2zero"}

\* [event(t, y) for event in events]
EventValues(tt, yy) ==
    [e \in EventNames |->
        CASE e = "far_away" -> far_away(tt, yy)
          [] e = "close_2pole" -> close_2pole(tt, yy)
          [] e = "close_2start" -> close_2start(tt, yy)
          [] e = "close_2zero" -> close_2zero(tt, yy)]

\* An event detection that needs a strict sign change.
find_active_events_strict(gg, g_new) ==
    {e \in EventNames : (gg[e] < 0 /\ g_new[e] > 0) \/ (gg[e] > 0 /\ g_new[e] < 0)}

\* solve_ivp: an event is active over a step when its value is zero or
\* changes sign: (g <= 0 and g_new >= 0) or (g >= 0 and g_new <= 0).
find_active_events(gg, g_new) ==
    {e \in EventNames : (gg[e] <= 0 /\ g_new[e] >= 0) \/ (gg[e] >= 0 /\ g_new[e] <= 0)}

\* The step sizes solver.step() may take.
StepSizes == {h \in 1..parameters.max_step : h >= parameters.max_step - StepSlack}

\* The velocity has modulus velocity_scale > 0: a step moves the point.
Moves == {<<dx, dy>> : dx \in -1..1, dy \in -1..1} \ {<<0, 0>>}

\* calculate_ray_3 up to the construction of the solver, which evaluates
\* vector_field at the start point.
RayStart ==
    /\ cpc \in {"positive", "negative"}
    /\ status = "idle"
    /\ sign' = (IF cpc = "positive" THEN 1 ELSE -1)
    /\ IF vector_field_raises(point)
       THEN /\ cpc' = "raised"
            /\ UNCHANGED <<status, t, y, ts, ys, g, active>>
       ELSE /\ status' = "running"
            /\ t' = 0
            /\ y' = point
            /\ ts' = <<0>>
            /\ ys' = <<point>>
            /\ g' = EventValues(0, point)
            /\ active' = {}
            /\ UNCHANGED cpc
    /\ UNCHANGED <<quad, parameters, point, positive_trajectory,
                   negative_trajectory, trajectory>>
    /\ UNCHANGED notCalcVars

\* One pass of solve_ivp's loop: solver.step(), the events, the record.
Step ==
    /\ cpc \in {"positive", "negative"}
    /\ status = "running"
    /\ \E h \in StepSizes, d \in Moves :
        LET t_old == t
            t_new == IF t + h > parameters.max_time THEN parameters.max_time ELSE t + h
            y_new == Add(y, Scale(sign, d))
        IN  /\ y_new \in Grid
            /\ IF vector_field_raises(y_new)
               THEN /\ cpc' = "raised"
                    /\ UNCHANGED <<status, t, y, ts, ys, g, active>>
               ELSE LET g_new == EventValues(t_new, y_new)
                        act == find_active_events(g, g_new)
                        \* brentq returns the end of the bracket where the event is zero
                        roots == {IF g[e] = 0 THEN t_old ELSE t_new : e \in act}
                        terminate == act # {}
                        t_rec == IF terminate THEN SetMin(roots) ELSE t_new
                        \* sol(t) of the dense output, at an end of the step
                        y_rec == IF t_rec = t_old THEN y ELSE y_new
                    IN  /\ t' = t_new
                        /\ y' = y_new
                        /\ ts' = Append(ts, t_rec)
                        /\ ys' = Append(ys, y_rec)
                        /\ g' = g_new
                        /\ active' = act
                        /\ status' = IF terminate THEN "event"
                                     ELSE IF t_new = parameters.max_time THEN "finished"
                                     ELSE "running"
                        /\ UNCHANGED cpc
    /\ UNCHANGED <<quad, parameters, point, sign, positive_trajectory,
                   negative_trajectory, trajectory>>
    /\ UNCHANGED notCalcVars

\* calculate_ray_3 returns the recorded points; calculate keeps the positive
\* ray and goes on to the negative one.
PositiveReturn ==
    /\ cpc = "positive"
    /\ status \in {"finished", "event"}
    /\ positive_trajectory' = ys
    /\ cpc' = "negative"
    /\ status' = "idle"
    /\ UNCHANGED <<quad, parameters, point, sign, t, y, ts, ys, g, active,
                   negative_trajectory, trajectory>>
    /\ UNCHANGED notCalcVars

\* list(reversed(negative_trajectory)) + positive_trajectory[1:]
Concatenate(neg, pos) == Reverse(neg) \o Tail(pos)

NegativeReturn ==
    /\ cpc = "negative"
    /\ status \in {"finished", "event"}
    /\ negative_trajectory' = ys
    /\ trajectory' = Concatenate(ys, positive_trajectory)
    /\ cpc' = "returned"
    /\ status' = "idle"
    /\ UNCHANGED <<quad, parameters, point, sign, t, y, ts, ys, g, active,
                   positive_trajectory>>
    /\ UNCHANGED notCalcVars

\* No parallel_calculate in progress.
IdlePool ==
    /\ args = <<>>
    /\ ppc = "idle"
    /\ taskq = 1
    /\ job = [w \in 1..NWorkers |-> 0]
    /\ items = <<>>
    /\ unsorted = <<>>
    /\ index = 1
    /\ zipped = 0
    /\ result = <<>>
    /\ completion_order = <<>>

\* vector_field has not been called yet.
NoVelocity == <<>>

IdleRefine ==
    /\ self_trajectory = <<>>
    /\ max_distance = 1
    /\ pair = 0
    /\ refined_trajectory = <<>>
    /\ rfpc = "idle"

IdleIntersects ==
    /\ traj_a = <<>>
    /\ traj_b = <<>>
    /\ a_intersects_b = "none"
    /\ b_intersects_a = "none"

IdleMonodromy ==
    /\ m_point = 0
    /\ m_phase = 0
    /\ velocity = NoVelocity
    /\ last_velocity = NoVelocity

\* No calculate in progress.
IdleCalc ==
    /\ quad \in Fields
    /\ parameters = DefaultParameters
    /\ point = <<0, 0>>
    /\ cpc = "idle"
    /\ sign = 1
    /\ status = "idle"
    /\ t = 0
    /\ y = <<0, 0>>
    /\ ts = <<>>
    /\ ys = <<>>
    /\ g = [e \in EventNames |-> 1]
    /\ active = {}
    /\ positive_trajectory = <<>>
    /\ negative_trajectory = <<>>
    /\ trajectory = <<>>

InitCalc ==
    /\ IdlePool /\ IdleRefine /\ IdleIntersects /\ IdleMonodromy
    /\ quad \in Fields
    /\ parameters \in Parameters
    /\ point \in Grid
    /\ cpc = "positive"
    /\ sign = 1
    /\ status = "idle"
    /\ t = 0
    /\ y = <<0, 0>>
    /\ ts = <<>>
    /\ ys = <<>>
    /\ g = [e \in EventNames |-> 1]
    /\ active = {}
    /\ positive_trajectory = <<>>
    /\ negative_trajectory = <<>>
    /\ trajectory = <<>>

NextCalc == RayStart \/ Step \/ PositiveReturn \/ NegativeReturn

SpecCalc == InitCalc /\ [][NextCalc]_vars

\* calculate runs in one process with nothing to wait for: a step that can
\* be taken is taken.
SpecCalcFair == SpecCalc /\ WF_vars(NextCalc)

----------------------------------------------------------------------------
(* Claims about calculate_ray_3 and calculate *)

\* Some termination condition holds at (tt, yy).
AnyCondition(tt, yy) == \E e \in EventNames : EventValues(tt, yy)[e] = 0

\* yy is within the close_2start parameter of the start point.
WithinStart(yy) ==
    AbsSq(Sub(yy, point)) <= parameters.close_2start * parameters.close_2start

C1_StopsAtEvent ==
    /\ (status = "running" /\ Len(ts) > 1) => ~AnyCondition(t, y)
    /\ status = "event" =>
          /\ active # {}
          /\ AnyCondition(ts[Len(ts)], ys[Len(ys)])
          /\ \A i \in 2..(Len(ts) - 1) : ~AnyCondition(ts[i], ys[i])
    /\ status = "finished" =>
          /\ active = {}
          /\ ts[Len(ts)] = parameters.max_time
          /\ \A i \in 1..Len(ts) : ~AnyCondition(ts[i], ys[i])
    /\ status = "running" => t < parameters.max_time
    /\ status \in {"running", "finished", "event"} => ys[1] = point

C1_NothingRecordedAfter ==
    (status \in {"finished", "event"}) => (ys' = ys /\ ts' = ts)

\* C1: every ray integration terminates; after each step the four
\* conditions are checked and integration stops at the first step where one
\* holds, nothing is recorded after it, and with no condition ever holding
\* it stops at max_time with the points visited, as a normal result.
C1_RayTerminates ==
    /\ []C1_StopsAtEvent
    /\ [][C1_NothingRecordedAfter]_vars
    /\ <>(cpc \in {"returned", "raised"})

C1_Witness ==
    /\ cpc = "negative"
    /\ status = "event"
    /\ Len(ys) >= 3
    /\ Len(positive_trajectory) >= 3

\* C2: calculate(point) is the reversed negative ray followed by the
\* positive ray without its first sample, the start point stands at the
\* junction, and the point after the junction differs from it.
C2_NoSeamDuplicate ==
    cpc = "returned" =>
        LET n == Len(negative_trajectory)
        IN  /\ trajectory = Reverse(negative_trajectory) \o Tail(positive_trajectory)
            /\ trajectory[n] = point
            /\ n < Len(trajectory) => trajectory[n + 1] # trajectory[n]

\* C5: with the start point on a zero, a simple pole or a double pole the
\* ray integrator raises before any point is produced, and no returned
\* trajectory holds a point where the field is undefined.
C5_SingularStartRaises ==
    /\ vector_field_raises(point) =>
          /\ cpc \in {"positive", "raised"}
          /\ status = "idle"
          /\ ts = <<>> /\ ys = <<>>
          /\ positive_trajectory = <<>> /\ negative_trajectory = <<>>
          /\ trajectory = <<>>
    /\ \A i \in 1..Len(ys) : ys[i] \notin Singularities
    /\ \A i \in 1..Len(trajectory) : trajectory[i] \notin Singularities

C5_Witness == cpc = "raised" /\ point \in Singularities /\ ys = <<>>

\* C10: close_2start is active only at a step that ends at t >= 100; at
\* such a step it is active exactly when the point is within the
\* close_2start parameter of the start point, and it then ends the
\* integration.
C10_CloseToStartWarmUp ==
    Len(ts) > 1 =>
        /\ t < WarmUp => "close_2start" \notin active
        /\ t >= WarmUp => ("close_2start" \in active <=> WithinStart(y))
        /\ "close_2start" \in active => status # "running"

----------------------------------------------------------------------------
(* TrajectorySolver.parallel_calculate *)

\* The jobs of the runs: a point on a zero, two regular points, two phases.
PoolPoints == {<<1, 1>>, <<0, 0>>, <<1, -1>>}
PoolPhases == {<<1, 0>>, <<0, 1>>}
Jobs == PoolPoints \X PoolPhases
JobLists == UNION {[1..n -> Jobs] : n \in 1..MaxJobs}

\* _calculate(arg) in a worker: calculate(point, phase) raises on a start
\* point where the field is undefined and otherwise returns the Trajectory
\* integrated from that point under that phase, which those two determine.
\* The worker hands back (success, value).
_calculate(arg) ==
    IF vector_field_raises(arg[1])
    THEN [success |-> FALSE, value |-> "ZeroDivisionError"]
    ELSE [success |-> TRUE, value |-> [basepoint |-> arg[1], phase |-> arg[2]]]

\* An iterator that hands results out in the order they arrive
\* (imap_unordered).
_set_unordered(i, obj) ==
    [items |-> Append(items, obj), unsorted |-> unsorted, index |-> index + 1]

\* IMapIterator._set(i, obj) of pool.imap: a result is released when its
\* index is the next expected one, together with the results waiting
\* behind it; otherwise it waits in _unsorted.
RECURSIVE Flush(_, _, _)
Flush(its, uns, idx) ==
    IF idx \in DOMAIN uns
    THEN Flush(Append(its, uns[idx]), [k \in DOMAIN uns \ {idx} |-> uns[k]], idx + 1)
    ELSE [items |-> its, unsorted |-> uns, index |-> idx]

_set(i, obj) ==
    IF index = i
    THEN Flush(Append(items, obj), unsorted, index + 1)
    ELSE [items |-> items,
          unsorted |-> [k \in DOMAIN unsorted \cup {i} |-> IF k = i THEN obj ELSE unsorted[k]],
          index |-> index]

\* Pool(), pool.imap(pickable_method, iterable), pool.close()
Submit ==
    /\ ppc = "start"
    /\ ppc' = "join"
    /\ UNCHANGED <<args, taskq, job, items, unsorted, index, zipped, result,
                   completion_order>>
    /\ UNCHANGED notPoolVars

\* A free worker takes the next job off the task queue.
WorkerTake(w) ==
    /\ ppc \in {"join"}
    /\ job[w] = 0
    /\ taskq <= Len(args)
    /\ job' = [job EXCEPT ![w] = taskq]
    /\ taskq' = taskq + 1
    /\ UNCHANGED <<args, ppc, items, unsorted, index, zipped, result, completion_order>>
    /\ UNCHANGED notPoolVars

\* A worker finishes its job and the result reaches the imap iterator.
WorkerFinish(w) ==
    /\ job[w] # 0
    /\ LET i == job[w]
           s == _set(i, _calculate(args[i]))
       IN  /\ items' = s.items
           /\ unsorted' = s.unsorted
           /\ index' = s.index
           /\ completion_order' = Append(completion_order, i)
    /\ job' = [job EXCEPT ![w] = 0]
    /\ UNCHANGED <<args, ppc, taskq, zipped, result>>
    /\ UNCHANGED notPoolVars

\* pool.join() returns when the workers have drained the task queue and exited.
Join ==
    /\ ppc = "join"
    /\ taskq > Len(args)
    /\ \A w \in 1..NWorkers : job[w] = 0
    /\ ppc' = "collect"
    /\ UNCHANGED <<args, taskq, job, items, unsorted, index, zipped, result,
                   completion_order>>
    /\ UNCHANGED notPoolVars

\* One pass of `for arg, trajectory in zip(args, trajectories)`: next() on
\* the imap iterator returns the value of a success and raises the
\* exception of a failure, which leaves parallel_calculate.
Collect ==
    /\ ppc = "collect"
    /\ IF zipped = Len(args)
       THEN /\ ppc' = "returned"
            /\ UNCHANGED <<zipped, result>>
       ELSE LET arg == args[zipped + 1]
                item == items[zipped + 1]
            IN  IF item.success
                THEN /\ result' = [a \in DOMAIN result \cup {arg} |->
                                      IF a = arg THEN item.value ELSE result[a]]
                     /\ zipped' = zipped + 1
                     /\ UNCHANGED ppc
                ELSE /\ ppc' = "raised"
                     /\ UNCHANGED <<zipped, result>>
    /\ UNCHANGED <<args, taskq, job, items, unsorted, index, completion_order>>
    /\ UNCHANGED notPoolVars

InitPool ==
    /\ IdleCalc /\ IdleRefine /\ IdleIntersects /\ IdleMonodromy
    /\ args \in JobLists
    /\ ppc = "start"
    /\ taskq = 1
    /\ job = [w \in 1..NWorkers |-> 0]
    /\ items = <<>>
    /\ unsorted = <<>>
    /\ index = 1
    /\ zipped = 0
    /\ result = <<>>
    /\ completion_order = <<>>

NextPool ==
    \/ Submit
    \/ \E w \in 1..NWorkers : WorkerTake(w)
    \/ \E w \in 1..NWorkers : WorkerFinish(w)
    \/ Join
    \/ Collect

SpecPool == InitPool /\ [][NextPool]_vars

----------------------------------------------------------------------------
(* Claims about parallel_calculate *)

Finished == {completion_order[k] : k \in 1..Len(completion_order)}
JobKeys == {args[i] : i \in 1..Len(args)}

\* C3: parallel_calculate returns only after every job has finished, and
\* the dict it returns maps the key of every job to the trajectory computed
\* for that job, whatever the order the workers finished in.
C3_KeysKeepTheirTrajectory ==
    /\ ppc \in {"collect", "returned", "raised"} =>
          /\ Finished = 1..Len(args)
          /\ \A w \in 1..NWorkers : job[w] = 0
    /\ ppc = "returned" =>
          /\ DOMAIN result = JobKeys
          /\ \A i \in 1..Len(args) : result[args[i]] = _calculate(args[i]).value
    /\ \A a \in DOMAIN result : result[a] = _calculate(a).value

C3_Witness ==
    /\ ppc = "returned"
    /\ Len(args) = 3
    /\ Cardinality(JobKeys) = 3
    /\ completion_order = <<2, 1, 3>>

\* C4: when one job of a batch fails, parallel_calculate still returns: the
\* failure is reported under that job's key and every sibling job's
\* trajectory under its own key.
C4_FailureReportedPerKey ==
    (/\ ppc \in {"returned", "raised"}
     /\ \E i \in 1..Len(args) : ~_calculate(args[i]).success
     /\ \E i \in 1..Len(args) : _calculate(args[i]).success) =>
        /\ ppc = "returned"
        /\ DOMAIN result = JobKeys
        /\ \A i \in 1..Len(args) : result[args[i]] = _calculate(args[i]).value

----------------------------------------------------------------------------
(* Trajectory.refine *)

RefinePoints == {<<re, im>> : re \in 0..RefineMax, im \in 0..1}

\* Consecutive points of the inputs lie on a common horizontal or vertical
\* line, so that abs(point - next_point) is an integer.
AxisAligned(p, q) == p[1] = q[1] \/ p[2] = q[2]

RefineInputs ==
    UNION {{s \in [1..n -> RefinePoints] :
              \A i \in 1..(n - 1) : AxisAligned(s[i], s[i + 1])} : n \in 0..MaxLen}

Magnitude(x) == IF x < 0 THEN -x ELSE x
Sgn(x) == IF x > 0 THEN 1 ELSE IF x < 0 THEN -1 ELSE 0

\* abs(w) of a complex number on one of the two axes
Abs(w) == Magnitude(w[1]) + Magnitude(w[2])

\* An arange that leaves out its last value.
arange_short(start, stop, step) ==
    [k \in 1..((stop - start + step - 1) \div step) - 1 |-> start + (k - 1) * step]

\* np.arange(start, stop, step): start, start + step, ... below stop
arange(start, stop, step) ==
    [k \in 1..((stop - start + step - 1) \div step) |-> start + (k - 1) * step]

\* A refine that interpolates every pair.
interpolates_always(dist, md) == TRUE

\* if dist > max_distance
interpolates(dist, md) == dist > md

\* One pass of the loop over zip(self[:-1], self[1:]). direction /=
\* abs(direction) raises ZeroDivisionError on a zero direction.
RefinePair ==
    /\ rfpc = "loop"
    /\ pair < Len(self_trajectory) - 1
    /\ LET pt == self_trajectory[pair + 1]
           next_point == self_trajectory[pair + 2]
           dist == Abs(Sub(pt, next_point))
           difference == Sub(next_point, pt)
       IN  IF interpolates(dist, max_distance)
           THEN IF Abs(difference) = 0
                THEN /\ rfpc' = "raised"
                     /\ UNCHANGED <<pair, refined_trajectory>>
                ELSE LET times == arange(0, dist, max_distance)
                         \* direction /= abs(direction)
                         direction == <<difference[1] \div Abs(difference),
                                        difference[2] \div Abs(difference)>>
                         refined_subinterval ==
                             [k \in 1..Len(times) |-> Add(pt, Scale(times[k], direction))]
                     IN  /\ refined_trajectory' = refined_trajectory \o refined_subinterval
                         /\ pair' = pair + 1
                         /\ UNCHANGED rfpc
           ELSE /\ refined_trajectory' = Append(refined_trajectory, pt)
                /\ pair' = pair + 1
                /\ UNCHANGED rfpc
    /\ UNCHANGED <<self_trajectory, max_distance>>
    /\ UNCHANGED notRefineVars

\* The loop is over: return refined_trajectory.
RefineReturn ==
    /\ rfpc = "loop"
    /\ pair >= Len(self_trajectory) - 1
    /\ rfpc' = "returned"
    /\ UNCHANGED <<self_trajectory, max_distance, pair, refined_trajectory>>
    /\ UNCHANGED notRefineVars

InitRefine ==
    /\ IdleCalc /\ IdlePool /\ IdleIntersects /\ IdleMonodromy
    /\ self_trajectory \in RefineInputs
    /\ max_distance \in 1..MaxDistance
    /\ pair = 0
    /\ refined_trajectory = <<>>
    /\ rfpc = "loop"

NextRefine == RefinePair \/ RefineReturn

SpecRefine == InitRefine /\ [][NextRefine]_vars

----------------------------------------------------------------------------
(* Claims about refine *)

\* C6: refine([0, 4], max_distance=1) returns [0, 1, 2, 3, 4], and the
\* refinement of a trajectory of two points or more starts at its first
\* point and ends at its last point.
C6_RefineKeepsEndpoints ==
    (rfpc = "returned" /\ Len(self_trajectory) >= 2) =>
        /\ refined_trajectory # <<>>
        /\ refined_trajectory[1] = self_trajectory[1]
        /\ refined_trajectory[Len(refined_trajectory)] = self_trajectory[Len(self_trajectory)]
        /\ (self_trajectory = <<<<0, 0>>, <<4, 0>>>> /\ max_distance = 1) =>
              refined_trajectory = <<<<0, 0>>, <<1, 0>>, <<2, 0>>, <<3, 0>>, <<4, 0>>>>

\* C7: any two consecutive points of refine's output are at most
\* max_distance apart, the pair made of the last interpolated point of a
\* segment and the first output point of the next segment included.
C7_RefinedSpacing ==
    \A k \in 1..(Len(refined_trajectory) - 1) :
        AbsSq(Sub(refined_trajectory[k + 1], refined_trajectory[k]))
            <= max_distance * max_distance

\* A three-point trajectory whose first segment is interpolated, with a
\* last sub-step shorter than max_distance, and followed by the next segment.
C7_Witness ==
    /\ rfpc = "returned"
    /\ Len(self_trajectory) = 3
    /\ max_distance = 2
    /\ Abs(Sub(self_trajectory[1], self_trajectory[2])) = 3
    /\ Abs(Sub(self_trajectory[2], self_trajectory[3])) > max_distance
    /\ Len(refined_trajectory) >= 4

\* The loop is at a pair of coincident consecutive points.
AtCoincidentPair ==
    /\ rfpc = "loop"
    /\ pair < Len(self_trajectory) - 1
    /\ self_trajectory[pair + 1] = self_trajectory[pair + 2]

C11_AppendsCoincidentPoint ==
    AtCoincidentPair =>
        /\ rfpc' = "loop"
        /\ pair' = pair + 1
        /\ refined_trajectory' = Append(refined_trajectory, self_trajectory[pair + 1])

\* C11: for a trajectory with two coincident consecutive points and any
\* max_distance > 0, refine raises no error, and at that pair it takes the
\* branch that does not interpolate: it appends the coincident point and
\* never normalizes the zero direction.
C11_NoZeroLengthDivision ==
    /\ [](rfpc # "raised")
    /\ [][C11_AppendsCoincidentPoint]_vars

\* refine returned on a trajectory that starts with a coincident pair,
\* followed by a segment that is interpolated.
C11_Witness ==
    /\ rfpc = "returned"
    /\ Len(self_trajectory) = 3
    /\ self_trajectory[1] = self_trajectory[2]
    /\ Abs(Sub(self_trajectory[2], self_trajectory[3])) > max_distance
    /\ refined_trajectory[1] = self_trajectory[1]
    /\ refined_trajectory[2] = self_trajectory[1]

----------------------------------------------------------------------------
(* Trajectory.intersects *)

CrossPoints == {<<re, im>> : re \in 0..CrossMax, im \in 0..1}

\* Trajectories of up to two segments, and of up to one.
Curves(n) == UNION {[1..k -> CrossPoints] : k \in 0..n}

Mul(a, b) == <<a[1] * b[1] - a[2] * b[2], a[1] * b[2] + a[2] * b[1]>>
Conj(a) == <<a[1], -a[2]>>

\* T = (w - z1) / (z2 - z1) is kept as the exact fraction N / D with
\* N = (w - z1) * conj(z2 - z1) and D = abs(z2 - z1) ** 2 > 0.
TNum(w, z1, z2) == Mul(Sub(w, z1), Conj(Sub(z2, z1)))

\* condition1 = T1.imag * T2.imag <= 0. With z2 = z1 numpy divides each
\* component by zero: +-inf for a non-zero component and nan for a zero
\* one, so the product is <= 0 only for two infinities of opposite sign.
condition1(z1, z2, w1, w2) ==
    IF z1 = z2
    THEN Sgn(Sub(w2, z1)[2]) * Sgn(Sub(w1, z1)[2]) < 0
    ELSE TNum(w2, z1, z2)[2] * TNum(w1, z1, z2)[2] <= 0

\* A crossing test that never looks where the crossing lies.
condition2_any(z1, z2, w1, w2) == TRUE

\* zero = (T2.imag * T1.real - T1.imag * T2.real) / (T2.imag - T1.imag)
\* and condition2 = (zero >= 0) & (zero <= 1). In the fractions above
\* zero = num / (D * den). Where the denominator is zero, zero is nan or
\* +-inf, and with z2 = z1 it is inf / inf = nan: both comparisons cannot
\* hold.
condition2(z1, z2, w1, w2) ==
    IF z1 = z2
    THEN FALSE
    ELSE LET T1 == TNum(w2, z1, z2)
             T2 == TNum(w1, z1, z2)
             D == AbsSq(Sub(z2, z1))
             num == T2[2] * T1[1] - T1[2] * T2[1]
             den == T2[2] - T1[2]
         IN  IF den > 0 THEN 0 <= num /\ num <= D * den
             ELSE IF den < 0 THEN D * den <= num /\ num <= 0
             ELSE FALSE

\* (condition1 & condition2).any() over the meshgrid of the segments of
\* line and of other
intersects(line, other) ==
    \E i \in 1..(Len(line) - 1), j \in 1..(Len(other) - 1) :
        /\ condition1(line[i], line[i + 1], other[j], other[j + 1])
        /\ condition2(line[i], line[i + 1], other[j], other[j + 1])

\* a.intersects(b)
CallAB ==
    /\ a_intersects_b = "none"
    /\ a_intersects_b' = IF intersects(traj_a, traj_b) THEN "True" ELSE "False"
    /\ UNCHANGED <<traj_a, traj_b, b_intersects_a>>
    /\ UNCHANGED notIntersectsVars

\* b.intersects(a)
CallBA ==
    /\ b_intersects_a = "none"
    /\ b_intersects_a' = IF intersects(traj_b, traj_a) THEN "True" ELSE "False"
    /\ UNCHANGED <<traj_a, traj_b, a_intersects_b>>
    /\ UNCHANGED notIntersectsVars

InitIntersects ==
    /\ IdleCalc /\ IdlePool /\ IdleRefine /\ IdleMonodromy
    /\ traj_a \in Curves(3)
    /\ traj_b \in Curves(2)
    /\ a_intersects_b = "none"
    /\ b_intersects_a = "none"

NextIntersects == CallAB \/ CallBA

SpecIntersects == InitIntersects /\ [][NextIntersects]_vars

----------------------------------------------------------------------------
(* Claims about intersects *)

\* C8: a.intersects(b) equals b.intersects(a) for all trajectories a and b
\* (simplify left False), segments touching at an endpoint, collinear
\* segments, coincident consecutive points and trajectories of fewer than
\* two points included.
C8_IntersectsSymmetric ==
    (a_intersects_b # "none" /\ b_intersects_a # "none") =>
        a_intersects_b = b_intersects_a

\* Both calls answered True for an a that starts with a coincident pair of
\* points and a b that starts on the last point of a.
C8_Witness ==
    /\ a_intersects_b = "True"
    /\ b_intersects_a = "True"
    /\ Len(traj_a) = 3
    /\ Len(traj_b) = 2
    /\ traj_b[1] = traj_a[3]
    /\ traj_a[1] = traj_a[2]

----------------------------------------------------------------------------
(* The monodromy update of calculate_ray_3.vector_field *)

\* A unit field value is its argument atan2(imag, real) in units of
\* pi / HalfTurn. The floats keep the sign of a zero imaginary part, so
\* that -1 comes twice: HalfTurn is -1+0j (phase pi) and -HalfTurn is
\* -1-0j (phase -pi).
FieldValues == (-HalfTurn)..HalfTurn

\* cm.phase(value / m_point[0]): the difference of the arguments brought
\* back to one turn. For opposite values the quotient is -1 with an
\* imaginary part that is a zero or a rounding residue of either sign, and
\* cm.phase gives pi or -pi accordingly.
PhaseOfQuotient(value, last) ==
    LET d == (value - last) % (2 * HalfTurn)
    IN  IF d = HalfTurn THEN {HalfTurn, -HalfTurn}
        ELSE IF d > HalfTurn THEN {d - 2 * HalfTurn}
        ELSE {d}

\* value.conjugate() negates the imaginary part, the sign of a zero included.
Conjugate(value) == -value

\* cm.sqrt halves the argument, and follows the sign of a zero imaginary
\* part on the negative real axis: sqrt(-1+0j) = 1j and sqrt(-1-0j) = -1j.
\* The result is an argument in units of pi / (2 * HalfTurn).
SqrtArg(value) == value

\* if (m_phase[0] - cm.pi) % (4 * cm.pi) < (2 * cm.pi): factor = -1
Factor(phase) ==
    IF (phase - HalfTurn) % (4 * HalfTurn) < 2 * HalfTurn THEN -1 ELSE 1

\* The argument of factor * cm.sqrt(value.conjugate()), in units of
\* pi / (2 * HalfTurn), in 0 .. 4 * HalfTurn - 1.
VelocityArg(value, phase) ==
    (SqrtArg(Conjugate(value)) + (IF Factor(phase) = -1 THEN 2 * HalfTurn ELSE 0))
        % (4 * HalfTurn)

\* vector_field is called at a point where the field has the value `value`.
VectorField(value) ==
    \E arg_change \in PhaseOfQuotient(value, m_point) :
        /\ m_phase + arg_change \in (-MaxPhase)..MaxPhase
        /\ m_phase' = m_phase + arg_change
        /\ m_point' = value
        /\ velocity' = <<VelocityArg(value, m_phase + arg_change)>>
        /\ last_velocity' = velocity
        /\ UNCHANGED notMonodromyVars

\* m_point = [quad(starting_point, normalize=True)]
\* m_phase = [cm.phase(m_point[0])]
InitMonodromy ==
    /\ IdleCalc /\ IdlePool /\ IdleRefine /\ IdleIntersects
    /\ m_point \in FieldValues
    /\ m_phase = m_point
    /\ velocity = NoVelocity
    /\ last_velocity = NoVelocity

NextMonodromy == \E value \in FieldValues : VectorField(value)

SpecMonodromy == InitMonodromy /\ [][NextMonodromy]_vars

----------------------------------------------------------------------------
(* Claims about the monodromy *)

\* The angle between two directions, in units of pi / (2 * HalfTurn).
AngleBetween(a, b) ==
    LET d == (a - b) % (4 * HalfTurn)
    IN  IF d > 2 * HalfTurn THEN 4 * HalfTurn - d ELSE d

\* C9: between two consecutive calls of vector_field the argument of
\* factor * sqrt(conjugate(value)) changes by less than pi, also at a field
\* value of argument exactly pi.
C9_VelocityContinuous ==
    (velocity # NoVelocity /\ last_velocity # NoVelocity) =>
        AngleBetween(velocity[1], last_velocity[1]) < 2 * HalfTurn

====
